---- MODULE Spec2Model ----
(***************************************************************************)
(* Command orchestration and state-broadcast subsystem of Drono_app-pack:  *)
(* the per-device command queue (server/core/command_queue.py), the        *)
(* command executor (server/core/command_executor.py) and the broadcast    *)
(* pub-sub (core/websocket_manager.py, server/core/websocket_manager.py).  *)
(*                                                                         *)
(* Each subsystem has its own next-state relation and specification over   *)
(* the common state; the variables of the other subsystems stay as they    *)
(* were constructed.                                                       *)
(***************************************************************************)
EXTENDS Integers, Sequences, FiniteSets, TLC

\* ---------------------------------------------------------------- bounds
MaxCmds == 3
NumDevices == 2
MaxPriority == 1
NumDrainTasks == 2
NumSubs == 2
MaxMsgs == 2
MaxConnects == 2

Devices == 1..NumDevices
Priorities == 0..MaxPriority
DrainTasks == 1..NumDrainTasks
NoCmd == 0
NoTask == 0
NoDev == 0

VARIABLES
    cmds,        \* Command objects handed to add_command, in arrival order
                 \* (the Command of database_models.py lines 44-63, the one
                 \* with priority and started_at), and how add_command ended
    created,     \* device ids that are keys of self.queues / self.locks
    queues,      \* device -> heap array of asyncio.PriorityQueue._queue
    unfinished,  \* device -> asyncio.Queue._unfinished_tasks
    locks,       \* device -> task holding self.locks[device], or NoTask
    tasks,       \* process_queue coroutines: position, device, command, and
                 \* how the last call of the task left the function
    started      \* command ids in the order line 41 marked them running

qvars == <<cmds, created, queues, unfinished, locks, tasks, started>>

VARIABLES
    ex_pc,       \* position of execute_command_with_retries
    ex_id,       \* command.id of the call
    ex_type,     \* command.type of the call
    ex_attempt,  \* the loop variable of line 93
    ex_log,      \* the attempts made by the call: outcome, and whether the
                 \* attempt outlived the timeout of its command type
    ex_late,     \* the current attempt has outlived that timeout
    ex_chan,     \* "silent": the channel will not answer the current attempt
    ex_sleeps,   \* backoff sleeps (line 107) started by the call
    ex_result,   \* what the call returned
    ex_alerts    \* alert_manager.send_alert calls made by the call

evars == <<ex_pc, ex_id, ex_type, ex_attempt, ex_log, ex_late, ex_chan,
           ex_sleeps, ex_result, ex_alerts>>

VARIABLES
    active_connections,  \* channel -> set of subscribers; the domain is the
                         \* set of channels that exist
    device_status,       \* device -> number of the last status broadcast
                         \* for it, 0 when the dict has no entry
    broadcast_queue,     \* None, or the items of the asyncio.Queue
    processing_task,     \* None, or the state of the consumer task
    sweep,               \* the consumer inside the for loop of a message:
                         \* the message, the copied set, who was tried,
                         \* who failed
    bc_count,            \* messages put on a broadcast queue so far
    conn_count,          \* connect calls so far
    rx                   \* subscriber -> what send_text delivered to it

bvars == <<active_connections, device_status, broadcast_queue,
           processing_task, sweep, bc_count, conn_count, rx>>

VARIABLES
    last_call,   \* the connect or disconnect call that has just run, with
                 \* how it ended; None after any other step
    pruned       \* <<subscriber, channel>> pairs the consumer discarded
                 \* after a failed send and that were not connected since

ovars == <<last_call, pruned>>

VARIABLES
    devices,       \* DeviceManager.devices: id -> Device, the domain is the
                   \* set of known ids
    scan_lock,     \* the task that holds scan_lock, or NoScanner
    scan_waiters,  \* the tasks waiting in scan_lock.acquire(), in order
    scan_pc,       \* position of each task that calls scan_devices
    shutdown_pc,   \* position of DeviceManager.shutdown
    held,          \* the Device a start or stop request got from get_device
                   \* and holds across its await; stale when the registry no
                   \* longer holds that object
    last_scan,     \* the scan_devices call that has just returned, with its
                   \* listing; NoScan after any other step
    prev_listing   \* the listing of the last successful scan, if any

rvars == <<devices, scan_lock, scan_waiters, scan_pc, shutdown_pc, held,
           last_scan, prev_listing>>

VARIABLES
    alert_handlers,  \* AlertManager.alert_handlers, in registration order
    alert_queue,     \* NoQueue, or the items of the asyncio.Queue
    alert_task,      \* AlertManager.processing_task: None, or the state of
                     \* the consumer task
    dispatch,        \* the consumer inside the for loop of an alert: the
                     \* alert and the position of the handler it awaits
    handled,         \* handler -> the alerts handle_alert was called with
    alert_count      \* alerts put on an alert queue so far

avars == <<alert_handlers, alert_queue, alert_task, dispatch, handled,
           alert_count>>

VARIABLES
    alert_history,   \* AlertManager.alert_history, oldest entry first
    last_alert_call  \* the call of the alert manager made by the last step
                     \* and its outcome

hvars == <<alert_history, last_alert_call>>

VARIABLES
    manager_loop,    \* LoopManager._loop: None, or the loop it is bound to
    loop_state,      \* event loop -> new (never run), running, stopped, closed
    calls            \* calls of a function wrapped by ensure_same_loop

lvars == <<manager_loop, loop_state, calls>>

VARIABLES
    consumers,       \* the loop tasks start() created, by number: running,
                     \* cancelling or done, and the queue whose get() the
                     \* task is in (queue n is the one made with task n)
    queued,          \* queue -> number of items on it
    this_task,       \* self.processing_task: NoTask or the number of a task
    stop_waiters     \* the callers suspended in stop()'s await, oldest first

cvars == <<consumers, queued, this_task, stop_waiters>>

vars == <<qvars, evars, bvars, ovars, rvars, avars, hvars, lvars, cvars>>

\* ------------------------------------------------- the priority queue
\* Swap of two list slots, as heapq's C sift loops do.
Swap(h, i, j) == [h EXCEPT ![i] = h[j], ![j] = h[i]]

\* The queue holds tuples (-command.priority, command).  Python compares
\* tuples by the first differing element; Command defines no ordering, so a
\* comparison of two tuples with equal keys raises TypeError.
Less(pr, a, b) ==
    IF pr[a] > pr[b] THEN "lt"
    ELSE IF pr[a] < pr[b] THEN "ge"
    ELSE IF a = b THEN "ge"
    ELSE "err"

RECURSIVE SiftDown(_, _, _, _)
SiftDown(pr, h, startpos, pos) ==
    IF pos <= startpos THEN [heap |-> h, err |-> FALSE]
    ELSE LET parentpos == pos \div 2
             cmp == Less(pr, h[pos], h[parentpos])
         IN  IF cmp = "err" THEN [heap |-> h, err |-> TRUE]
             ELSE IF cmp = "ge" THEN [heap |-> h, err |-> FALSE]
             ELSE SiftDown(pr, Swap(h, pos, parentpos), startpos, parentpos)

RECURSIVE SiftUp(_, _, _, _)
SiftUp(pr, h, startpos, pos) ==
    IF pos <= Len(h) \div 2
    THEN LET left == 2 * pos
             right == 2 * pos + 1
             cmp == IF right <= Len(h) THEN Less(pr, h[left], h[right]) ELSE "lt"
             child == IF cmp = "lt" THEN left ELSE right
         IN  IF cmp = "err" THEN [heap |-> h, err |-> TRUE]
             ELSE SiftUp(pr, Swap(h, pos, child), startpos, child)
    ELSE SiftDown(pr, h, startpos, pos)

\* heapq.heappush: append, then sift; the item stays appended when the
\* sift raises.
HeapPush(pr, h, c) == SiftDown(pr, Append(h, c), 1, Len(h) + 1)

\* heapq.heappop: remove the last slot, put it at the root, sift; when the
\* sift raises the old root has already left the list and is dropped.
HeapPop(pr, h) ==
    LET n == Len(h)
        last == h[n]
        rest == SubSeq(h, 1, n - 1)
    IN  IF n = 1 THEN [heap |-> <<>>, item |-> last, err |-> FALSE]
        ELSE LET r == SiftUp(pr, [rest EXCEPT ![1] = last], 1, 1)
             IN  [heap |-> r.heap, item |-> IF r.err THEN NoCmd ELSE rest[1],
                  err |-> r.err]

PrioOf(cs) == [c \in 1..Len(cs) |-> cs[c].priority]

\* ------------------------------------------------------ command queue
Idle == [pc |-> "idle", device |-> NoDev, cmd |-> NoCmd, exit |-> "none"]

InitQueue ==
    /\ cmds = <<>>
    /\ created = {}
    /\ queues = [d \in Devices |-> <<>>]
    /\ unfinished = [d \in Devices |-> 0]
    /\ locks = [d \in Devices |-> NoTask]
    /\ tasks = [t \in DrainTasks |-> Idle]
    /\ started = <<>>

\* CommandQueue.add_command
AddCommand(d, p) ==
    /\ Len(cmds) < MaxCmds
    /\ LET c == Len(cmds) + 1
           pr == [x \in 1..c |-> IF x = c THEN p ELSE cmds[x].priority]
           r == HeapPush(pr, queues[d], c)
       IN  /\ cmds' = Append(cmds, [device |-> d, priority |-> p,
                                    status |-> "pending",
                                    error |-> "none", was |-> "none",
                                    add |-> IF r.err THEN "raised" ELSE "accepted"])
           /\ queues' = [queues EXCEPT ![d] = r.heap]
           /\ unfinished' = [unfinished EXCEPT ![d] = IF r.err THEN @ ELSE @ + 1]
    /\ created' = created \cup {d}
    /\ UNCHANGED <<locks, tasks, started>>

\* What one run of the body of process_queue leaves behind when it next
\* suspends or leaves the function.
Outcome(exit, h, u, cs, st, c) ==
    [exit |-> exit, heap |-> h, unf |-> u, cmds |-> cs, started |-> st, cur |-> c]

RECURSIVE LoopOutcomes(_, _, _, _, _)
RECURSIVE AfterBody(_, _, _, _, _, _)

\* The except branch of process_queue (lines 54-59): the command is marked
\* failed, its error is set, and it is committed; that commit may raise as
\* well.  The field was keeps the status that line 56 overwrote.
Handler(faults, h, u, cs, st, c) ==
    LET failed == [cs EXCEPT ![c].status = "failed", ![c].error = "set",
                             ![c].was = cs[c].status]
    IN  UNION {AfterBody(faults, h, u, failed, st, raised) : raised \in faults}

\* The finally branch (line 62) and what follows it: task_done raises
\* ValueError when nothing is unfinished; a pending exception leaves the
\* function; otherwise the while loop goes round.
AfterBody(faults, h, u, cs, st, raised) ==
    IF u <= 0 THEN {Outcome("ValueError", h, u, cs, st, NoCmd)}
    ELSE IF raised THEN {Outcome("DBError", h, u - 1, cs, st, NoCmd)}
    ELSE LoopOutcomes(faults, h, u - 1, cs, st)

\* The while loop of process_queue from its head (line 35) to the next
\* suspension, in _execute_command, or to the exit.  faults is the set of
\* answers db.commit() can give to "did it raise".
LoopOutcomes(faults, h, u, cs, st) ==
    IF h = <<>> THEN {Outcome("returned", h, u, cs, st, NoCmd)}
    ELSE LET r == HeapPop(PrioOf(cs), h)
         IN  IF r.err THEN {Outcome("TypeError", r.heap, u, cs, st, NoCmd)}
             ELSE LET c == r.item
                      st1 == Append(st, c)
                      running == [cs EXCEPT ![c].status = "running"]
                  IN  UNION {IF raised
                             THEN Handler(faults, r.heap, u, running, st1, c)
                             ELSE {Outcome("suspended", r.heap, u, running, st1, c)}
                             : raised \in faults}

\* The rest of the loop body once _execute_command has returned (lines
\* 50-62), then the loop again.
ResumeOutcomes(faults, h, u, cs, st, c) ==
    LET completed == [cs EXCEPT ![c].status = "completed"]
    IN  UNION {IF raised
               THEN Handler(faults, h, u, completed, st, c)
               ELSE AfterBody(faults, h, u, completed, st, FALSE)
               : raised \in faults}

\* A lock that never reports being held.
LockAlwaysFree(d) == TRUE

\* asyncio.Lock: free when no task holds it.
LockFree(d) == locks[d] = NoTask

\* One lock for all devices instead of locks[device_id].
CanEnterNoneHeld(d) ==
    /\ \A e \in Devices : locks[e] = NoTask
    /\ \A t \in DrainTasks : ~(tasks[t].pc = "waitlock" /\ tasks[t].device = d)

\* Lock.acquire returns at once only when the lock is free and nobody is
\* queued for it.
CanEnter(d) ==
    /\ LockFree(d)
    /\ \A t \in DrainTasks : ~(tasks[t].pc = "waitlock" /\ tasks[t].device = d)

\* Task t is left where outcome o puts it; the lock of d is held exactly
\* while the task is suspended inside the async with block.
Apply(t, d, o) ==
    /\ queues' = [queues EXCEPT ![d] = o.heap]
    /\ unfinished' = [unfinished EXCEPT ![d] = o.unf]
    /\ cmds' = o.cmds
    /\ started' = o.started
    /\ locks' = [locks EXCEPT ![d] = IF o.exit = "suspended" THEN t ELSE NoTask]
    /\ tasks' = [tasks EXCEPT ![t] =
                    IF o.exit = "suspended"
                    THEN [pc |-> "executing", device |-> d, cmd |-> o.cur, exit |-> "none"]
                    ELSE [Idle EXCEPT !.device = d, !.exit = o.exit]]
    /\ UNCHANGED created

\* CommandQueue.process_queue called for device d by a fresh task: lines
\* 31-47, up to the first suspension.
DrainStart(faults, t, d) ==
    /\ tasks[t].pc = "idle"
    /\ IF d \notin created
       THEN /\ tasks' = [tasks EXCEPT ![t] = [Idle EXCEPT !.device = d, !.exit = "returned"]]
            /\ UNCHANGED <<cmds, created, queues, unfinished, locks, started>>
       ELSE IF CanEnter(d)
       THEN \E o \in LoopOutcomes(faults, queues[d], unfinished[d], cmds, started) :
                Apply(t, d, o)
       ELSE /\ tasks' = [tasks EXCEPT ![t] =
                            [pc |-> "waitlock", device |-> d, cmd |-> NoCmd, exit |-> "none"]]
            /\ UNCHANGED <<cmds, created, queues, unfinished, locks, started>>

\* A task waiting at line 34 gets the lock once it is released.
LockAcquired(faults, t) ==
    /\ tasks[t].pc = "waitlock"
    /\ LockFree(tasks[t].device)
    /\ \E o \in LoopOutcomes(faults, queues[tasks[t].device],
                             unfinished[tasks[t].device], cmds, started) :
           Apply(t, tasks[t].device, o)

\* _execute_command returns (the sleep of line 67 is over): lines 50-62
\* and the loop up to the next suspension or the exit.
DrainResume(faults, t) ==
    /\ tasks[t].pc = "executing"
    /\ \E o \in ResumeOutcomes(faults, queues[tasks[t].device],
                               unfinished[tasks[t].device], cmds, started,
                               tasks[t].cmd) :
           Apply(t, tasks[t].device, o)

NextQueue ==
    /\ \/ \E d \in Devices, p \in Priorities : AddCommand(d, p)
       \/ \E t \in DrainTasks, d \in Devices : DrainStart({FALSE}, t, d)
       \/ \E t \in DrainTasks : LockAcquired({FALSE}, t)
       \/ \E t \in DrainTasks : DrainResume({FALSE}, t)
    /\ UNCHANGED <<evars, bvars, ovars, rvars, avars, hvars, lvars, cvars>>

\* CommandQueue.running_commands: created empty on line 13, and no
\* statement of the class writes to it.
running_commands == [d \in {} |-> NoCmd]

\* CommandQueue.get_queue_status
GetQueueStatus(d) ==
    IF d \notin created
    THEN [queue_size |-> 0, running_command |-> NoCmd]
    ELSE [queue_size |-> Len(queues[d]),
          running_command |-> IF d \in DOMAIN running_commands
                              THEN running_commands[d] ELSE NoCmd]

\* The loop of clear_queue (lines 82-84) on heap h with u unfinished
\* items: get_nowait raises TypeError when the sift compares two equal
\* keys, task_done raises ValueError when nothing is unfinished.
RECURSIVE ClearOutcome(_, _, _)
ClearOutcome(pr, h, u) ==
    IF h = <<>> THEN [heap |-> h, unf |-> u]
    ELSE LET r == HeapPop(pr, h)
         IN  IF r.err \/ u <= 0 THEN [heap |-> r.heap, unf |-> u]
             ELSE ClearOutcome(pr, r.heap, u - 1)

\* CommandQueue.clear_queue: the queued commands are dropped as they
\* are; it does not touch the lock or a drain that is suspended.
ClearQueue(d) ==
    /\ d \in created
    /\ queues[d] # <<>>
    /\ LET o == ClearOutcome(PrioOf(cmds), queues[d], unfinished[d])
       IN  /\ queues' = [queues EXCEPT ![d] = o.heap]
           /\ unfinished' = [unfinished EXCEPT ![d] = o.unf]
    /\ UNCHANGED <<cmds, created, locks, tasks, started>>

\* The same with a database whose commits may raise.
NextQueueDb ==
    /\ \/ \E d \in Devices, p \in Priorities : AddCommand(d, p)
       \/ \E t \in DrainTasks, d \in Devices : DrainStart(BOOLEAN, t, d)
       \/ \E t \in DrainTasks : LockAcquired(BOOLEAN, t)
       \/ \E t \in DrainTasks : DrainResume(BOOLEAN, t)
    /\ UNCHANGED <<evars, bvars, ovars, rvars, avars, hvars, lvars, cvars>>

\* The task of a drain is cancelled.  Waiting for the lock (line 34) it
\* just ends.  Suspended in _execute_command the CancelledError passes
\* the except Exception of line 54, the finally clause calls task_done
\* (whose ValueError would take its place), and the async with releases
\* the lock; the command keeps the status it has.
DrainCancel(t) ==
    /\ tasks[t].pc \in {"waitlock", "executing"}
    /\ IF tasks[t].pc = "waitlock"
       THEN /\ tasks' = [tasks EXCEPT ![t] = [Idle EXCEPT !.device = tasks[t].device,
                                                          !.exit = "CancelledError"]]
            /\ UNCHANGED <<unfinished, locks>>
       ELSE LET d == tasks[t].device
            IN  /\ tasks' = [tasks EXCEPT ![t] =
                     [Idle EXCEPT !.device = d,
                                  !.exit = IF unfinished[d] <= 0 THEN "ValueError"
                                           ELSE "CancelledError"]]
                /\ unfinished' = [unfinished EXCEPT ![d] = IF @ <= 0 THEN @ ELSE @ - 1]
                /\ locks' = [locks EXCEPT ![d] = NoTask]
    /\ UNCHANGED <<cmds, created, queues, started>>

\* The queue with drains whose tasks may be cancelled.
NextQueueCancel ==
    /\ \/ \E d \in Devices, p \in Priorities : AddCommand(d, p)
       \/ \E t \in DrainTasks, d \in Devices : DrainStart({FALSE}, t, d)
       \/ \E t \in DrainTasks : LockAcquired({FALSE}, t)
       \/ \E t \in DrainTasks : DrainResume({FALSE}, t)
       \/ \E t \in DrainTasks : DrainCancel(t)
    /\ UNCHANGED <<evars, bvars, ovars, rvars, avars, hvars, lvars, cvars>>

\* The same again with callers of clear_queue.
NextQueueOps ==
    /\ \/ \E d \in Devices, p \in Priorities : AddCommand(d, p)
       \/ \E t \in DrainTasks, d \in Devices : DrainStart(BOOLEAN, t, d)
       \/ \E t \in DrainTasks : LockAcquired(BOOLEAN, t)
       \/ \E t \in DrainTasks : DrainResume(BOOLEAN, t)
       \/ \E d \in Devices : ClearQueue(d)
    /\ UNCHANGED <<evars, bvars, ovars, rvars, avars, hvars, lvars, cvars>>

\* --------------------------------------------------- command executor
NumExCmds == 2
ExCmdIds == 1..NumExCmds
KnownTypes == {"start", "stop", "pause", "resume", "status"}
CommandTypes == KnownTypes \cup {"other"}

\* CommandExecutor.command_timeouts with the default of line 91.
CommandTimeout(type) ==
    CASE type = "start" -> 300
      [] type = "stop" -> 60
      [] type = "pause" -> 30
      [] type = "resume" -> 30
      [] type = "status" -> 10
      [] OTHER -> 60

\* range(3) of line 93.
Attempts == 3

InitExec ==
    /\ ex_pc = "idle"
    /\ ex_id = NoCmd
    /\ ex_type = "none"
    /\ ex_attempt = 0
    /\ ex_log = <<>>
    /\ ex_late = FALSE
    /\ ex_chan = "live"
    /\ ex_sleeps = 0
    /\ ex_result = "none"
    /\ ex_alerts = <<>>

\* The alert of lines 110-115.
FailureAlert(type, id) ==
    <<[type |-> "error", message |-> "failed after 3 attempts",
       command_type |-> type, command_id |-> id]>>

\* As AttemptFailed, with the last round of the loop one later.
AttemptFailedLate(id, type, attempt, log, sleeps, how) ==
    /\ ex_id' = id
    /\ ex_type' = type
    /\ ex_attempt' = attempt
    /\ ex_log' = Append(log, [outcome |-> how, late |-> ex_late])
    /\ ex_late' = FALSE
    /\ ex_chan' = "live"
    /\ IF attempt < 3
       THEN /\ ex_pc' = "backoff"
            /\ ex_sleeps' = sleeps + 1
            /\ ex_result' = "none"
            /\ ex_alerts' = <<>>
       ELSE /\ ex_pc' = "returned"
            /\ ex_sleeps' = sleeps
            /\ ex_result' = "false"
            /\ ex_alerts' = <<[type |-> "error", message |-> "failed after 3 attempts",
                               command_type |-> type, command_id |-> id]>>

\* Lines 98-116 for attempt number attempt of the call (id, type) that
\* returned False: sleep and go round, or alert and return False after the
\* last attempt.
AttemptFailed(id, type, attempt, log, sleeps, how) ==
    /\ ex_id' = id
    /\ ex_type' = type
    /\ ex_attempt' = attempt
    /\ ex_log' = Append(log, [outcome |-> how, late |-> ex_late])
    /\ ex_late' = FALSE
    /\ ex_chan' = "live"
    /\ IF attempt < Attempts - 1
       THEN /\ ex_pc' = "backoff"
            /\ ex_sleeps' = sleeps + 1
            /\ ex_result' = "none"
            /\ ex_alerts' = <<>>
       ELSE /\ ex_pc' = "returned"
            /\ ex_sleeps' = sleeps
            /\ ex_result' = "false"
            /\ ex_alerts' = FailureAlert(type, id)

\* As AttemptSucceeded, without the return of line 100: the result falls
\* through to the retry branch.
AttemptSucceededNoReturn ==
    /\ ex_log' = Append(ex_log, [outcome |-> "ok", late |-> ex_late])
    /\ ex_pc' = IF ex_attempt < 2 THEN "backoff" ELSE "returned"
    /\ ex_result' = IF ex_attempt < 2 THEN "none" ELSE "true"
    /\ ex_sleeps' = IF ex_attempt < 2 THEN ex_sleeps + 1 ELSE ex_sleeps
    /\ ex_late' = FALSE
    /\ ex_chan' = "live"
    /\ UNCHANGED <<ex_id, ex_type, ex_attempt, ex_alerts>>

\* Lines 98-100 for an attempt that returned True.
AttemptSucceeded ==
    /\ ex_log' = Append(ex_log, [outcome |-> "ok", late |-> ex_late])
    /\ ex_pc' = "returned"
    /\ ex_result' = "true"
    /\ ex_late' = FALSE
    /\ ex_chan' = "live"
    /\ UNCHANGED <<ex_id, ex_type, ex_attempt, ex_sleeps, ex_alerts>>

\* _execute_with_timeout up to its first suspension: an unknown type
\* returns False at once (line 156); a known type starts its subprocess,
\* or the start raises and the handlers turn that into False.  The timeout
\* argument is not used.
BeginAttempt(id, type, attempt, log, sleeps, spawned) ==
    IF type \in KnownTypes /\ spawned
    THEN /\ ex_id' = id
         /\ ex_type' = type
         /\ ex_attempt' = attempt
         /\ ex_log' = log
         /\ ex_sleeps' = sleeps
         /\ ex_pc' = "awaiting"
         /\ ex_late' = FALSE
         /\ ex_chan' = "live"
         /\ ex_result' = "none"
         /\ ex_alerts' = <<>>
    ELSE AttemptFailed(id, type, attempt, log, sleeps,
                       IF type \in KnownTypes THEN "raise" ELSE "unknown")

\* CommandExecutor.execute_command_with_retries is called (by
\* start_simulation, stop_simulation, ...): lines 86-96.
ExecCall(id, type, spawned) ==
    /\ ex_pc \in {"idle", "returned"}
    /\ BeginAttempt(id, type, 0, <<>>, 0, spawned)

\* The subprocess of the current attempt exits with return code 0 (ok) or
\* another one.
ChannelResponds(ok) ==
    /\ ex_pc = "awaiting"
    /\ ex_chan = "live"
    /\ IF ok THEN AttemptSucceeded
       ELSE AttemptFailed(ex_id, ex_type, ex_attempt, ex_log, ex_sleeps, "fail")

\* The channel stops answering: process.communicate() of the current
\* attempt will not return.
ChannelSilent ==
    /\ ex_pc = "awaiting"
    /\ ex_chan = "live"
    /\ ex_chan' = "silent"
    /\ UNCHANGED <<ex_pc, ex_id, ex_type, ex_attempt, ex_log, ex_late,
                   ex_sleeps, ex_result, ex_alerts>>

\* CommandTimeout(ex_type) seconds have passed since the current attempt
\* began.  Nothing in the executor waits on that deadline.
DeadlineElapses ==
    /\ ex_pc = "awaiting"
    /\ ~ex_late
    /\ CommandTimeout(ex_type) > 0
    /\ ex_late' = TRUE
    /\ UNCHANGED <<ex_pc, ex_id, ex_type, ex_attempt, ex_log, ex_chan,
                   ex_sleeps, ex_result, ex_alerts>>

\* asyncio.sleep(5) of line 107 is over: the next round of the loop.
BackoffDone(spawned) ==
    /\ ex_pc = "backoff"
    /\ BeginAttempt(ex_id, ex_type, ex_attempt + 1, ex_log, ex_sleeps, spawned)

ExecStep ==
    \/ \E ok \in BOOLEAN : ChannelResponds(ok)
    \/ \E spawned \in BOOLEAN : BackoffDone(spawned)

NextExec ==
    /\ \/ \E id \in ExCmdIds, type \in CommandTypes, spawned \in BOOLEAN :
              ExecCall(id, type, spawned)
       \/ ExecStep
       \/ ChannelSilent
       \/ DeadlineElapses
    /\ UNCHANGED <<qvars, bvars, ovars, rvars, avars, hvars, lvars, cvars>>

\* ------------------------------------------------------ broadcast pub-sub
Subs == 1..NumSubs
InitialChannels == {"devices", "alerts", "status"}
ChannelNames == InitialChannels \cup {"custom"}
None == "None"
NoSweep == [msg |-> None]

NoCall == [op |-> "none"]

InitObserved ==
    /\ last_call = NoCall
    /\ pruned = {}

InitBroadcast ==
    /\ active_connections = [ch \in InitialChannels |-> {}]
    /\ device_status = [d \in Devices |-> 0]
    /\ broadcast_queue = None
    /\ processing_task = None
    /\ sweep = NoSweep
    /\ bc_count = 0
    /\ conn_count = 0
    /\ rx = [s \in Subs |-> <<>>]

\* A put that adds at the head.
QueuePutFront(items, m) == <<m>> \o items

\* asyncio.Queue.put on the unbounded queue: the item goes to the tail.
QueuePut(items, m) == Append(items, m)

\* The consumer from the head of its loop (line 161) to its next
\* suspension: messages of a channel that is absent or has no subscriber
\* are consumed on the spot; with the queue empty it waits in get(); else
\* it is in the first send_text of the copied set.
RECURSIVE Advance(_, _)
Advance(items, conns) ==
    IF items = <<>> THEN [items |-> items, sweep |-> NoSweep]
    ELSE LET m == Head(items)
         IN  IF m.channel \in DOMAIN conns /\ conns[m.channel] # {}
             THEN [items |-> Tail(items),
                   sweep |-> [msg |-> m, connections |-> conns[m.channel],
                              attempted |-> {}, disconnected |-> {}]]
             ELSE Advance(Tail(items), conns)

\* WebSocketManager.start
Start ==
    /\ IF processing_task = None
       THEN /\ broadcast_queue' = <<>>
            /\ processing_task' = "running"
       ELSE UNCHANGED <<broadcast_queue, processing_task>>
    /\ UNCHANGED <<active_connections, device_status, sweep, bc_count, conn_count, rx>>

\* WebSocketManager.stop up to its await: the task is cancelled.
StopCall ==
    /\ processing_task = "running"
    /\ processing_task' = "cancelling"
    /\ UNCHANGED <<active_connections, device_status, broadcast_queue, sweep,
                   bc_count, conn_count, rx>>

\* The consumer is resumed with CancelledError, in get() or in send_text,
\* and leaves the loop (lines 189-191).
ConsumerCancelled ==
    /\ processing_task = "cancelling"
    /\ processing_task' = "finished"
    /\ sweep' = NoSweep
    /\ UNCHANGED <<active_connections, device_status, broadcast_queue,
                   bc_count, conn_count, rx>>

\* stop() is resumed after the task has finished (line 41).
StopReturn ==
    /\ processing_task = "finished"
    /\ processing_task' = None
    /\ UNCHANGED <<active_connections, device_status, broadcast_queue, sweep,
                   bc_count, conn_count, rx>>

\* A connect that sends the snapshot on every channel.
SnapshotDueAnyChannel(ch) == \E d \in Devices : device_status[d] # 0

\* Lines 56 and 59: the channel is "devices" and the status dict is not
\* empty.
SnapshotDue(ch) ==
    ch = "devices" /\ \E d \in Devices : device_status[d] # 0

\* WebSocketManager.connect after accept(): the subscriber is registered;
\* on the devices channel a non-empty status dict is sent to it, and a
\* failure of that send is logged only.
Connect(s, ch, sendOk) ==
    /\ conn_count < MaxConnects
    /\ active_connections' =
          [c \in DOMAIN active_connections \cup {ch} |->
              IF c = ch
              THEN (IF c \in DOMAIN active_connections
                    THEN active_connections[c] ELSE {}) \cup {s}
              ELSE active_connections[c]]
    /\ rx' = IF SnapshotDue(ch) /\ sendOk
              THEN [rx EXCEPT ![s] = Append(@, [kind |-> "snapshot",
                                               devices |-> device_status])]
              ELSE rx
    /\ conn_count' = conn_count + 1
    /\ UNCHANGED <<device_status, broadcast_queue, processing_task, sweep,
                   bc_count>>

\* A removal that also drops a channel left without subscribers.
SetRemoveDropEmpty(conns, ch, s) ==
    IF conns[ch] \ {s} = {}
    THEN [c \in DOMAIN conns \ {ch} |-> conns[c]]
    ELSE [conns EXCEPT ![ch] = @ \ {s}]

\* self.active_connections[channel].remove(websocket): the set loses the
\* subscriber, the dict keeps the key.
SetRemove(conns, ch, s) == [conns EXCEPT ![ch] = @ \ {s}]

\* A disconnect that removes without looking.
DisconnectUnguarded(s, ch) == TRUE

\* The condition of line 75.
DisconnectGuard(s, ch) ==
    ch \in DOMAIN active_connections /\ s \in active_connections[ch]

\* What disconnect does: dict[channel] raises KeyError for a missing key
\* and set.remove raises KeyError for a missing element, and the
\* exception leaves the call with the sets as they were.
DisconnectResult(s, ch) ==
    IF DisconnectGuard(s, ch)
    THEN IF ch \in DOMAIN active_connections /\ s \in active_connections[ch]
         THEN [conns |-> SetRemove(active_connections, ch, s),
               raised |-> FALSE]
         ELSE [conns |-> active_connections, raised |-> TRUE]
    ELSE [conns |-> active_connections, raised |-> FALSE]

\* WebSocketManager.disconnect
Disconnect(s, ch) ==
    /\ active_connections' = DisconnectResult(s, ch).conns
    /\ UNCHANGED <<device_status, broadcast_queue, processing_task, sweep,
                   bc_count, conn_count, rx>>

\* The common part of the broadcast_* producers: nothing without a queue,
\* else the message is put on it.
Enqueue(ch, type, d) ==
    /\ bc_count < MaxMsgs
    /\ IF broadcast_queue = None
       THEN UNCHANGED <<broadcast_queue, bc_count, device_status>>
       ELSE /\ broadcast_queue' =
                  QueuePut(broadcast_queue,
                           [seq |-> bc_count + 1, channel |-> ch, type |-> type,
                            device |-> d])
            /\ bc_count' = bc_count + 1
            /\ device_status' = IF type = "device_status"
                                THEN [device_status EXCEPT ![d] = bc_count + 1]
                                ELSE device_status
    /\ UNCHANGED <<active_connections, processing_task, sweep, conn_count, rx>>

\* WebSocketManager.broadcast_alert
BroadcastAlert == Enqueue("alerts", "alert", NoDev)

\* WebSocketManager.broadcast_device_status
BroadcastDeviceStatus(d) == Enqueue("devices", "device_status", d)

\* WebSocketManager.broadcast_simulation_progress
BroadcastSimulationProgress(d) == Enqueue("status", "simulation_progress", d)

\* WebSocketManager.send_message
SendMessage(ch) == Enqueue(ch, "custom", NoDev)

\* The consumer, waiting in get(), is resumed by a put.
ConsumerWake ==
    /\ processing_task = "running"
    /\ sweep = NoSweep
    /\ broadcast_queue # <<>>
    /\ LET a == Advance(broadcast_queue, active_connections)
       IN  /\ broadcast_queue' = a.items
           /\ sweep' = a.sweep
    /\ UNCHANGED <<active_connections, device_status, processing_task,
                   bc_count, conn_count, rx>>

\* As AfterSend, without line 181: a failed subscriber is not noted.
AfterSendUntracked(sw, s, ok) == [sw EXCEPT !.attempted = @ \cup {s}]

\* What is left of the sweep after the send to s: the failed subscriber is
\* noted and the loop goes on.
AfterSend(sw, s, ok) ==
    [sw EXCEPT !.attempted = @ \cup {s},
               !.disconnected = IF ok THEN @ ELSE @ \cup {s}]

\* A sweep over the channel's set itself.
RecipientsLive(sw, conns) ==
    IF sw.msg.channel \in DOMAIN conns THEN conns[sw.msg.channel] ELSE {}

\* The set the for loop of line 174 iterates: the copy made in line 170.
Recipients(sw, conns) == sw.connections

\* send_text to subscriber s of the copied set returns (ok) or raises:
\* lines 175-187.  After the last subscriber the failed ones are discarded
\* from the channel, and the loop goes round to the next message.
SendDone(s, ok) ==
    /\ processing_task = "running"
    /\ sweep # NoSweep
    /\ s \in Recipients(sweep, active_connections) \ sweep.attempted
    /\ rx' = IF ok THEN [rx EXCEPT ![s] = Append(@, [kind |-> "message",
                                                     seq |-> sweep.msg.seq])]
              ELSE rx
    /\ LET sw == AfterSend(sweep, s, ok)
       IN  IF sw.attempted # Recipients(sw, active_connections)
           THEN /\ sweep' = sw
                /\ UNCHANGED <<active_connections, broadcast_queue>>
           ELSE LET conns == [active_connections EXCEPT
                                ![sw.msg.channel] = @ \ sw.disconnected]
                    a == Advance(broadcast_queue, conns)
                IN  /\ active_connections' = conns
                    /\ broadcast_queue' = a.items
                    /\ sweep' = a.sweep
    /\ UNCHANGED <<device_status, processing_task, bc_count, conn_count>>

NextBroadcast ==
    /\ \/ Start
       \/ StopCall
       \/ ConsumerCancelled
       \/ StopReturn
       \/ \E s \in Subs, ch \in ChannelNames, sendOk \in BOOLEAN : Connect(s, ch, sendOk)
       \/ \E s \in Subs, ch \in ChannelNames : Disconnect(s, ch)
       \/ BroadcastAlert
       \/ \E d \in Devices : BroadcastDeviceStatus(d)
       \/ \E d \in Devices : BroadcastSimulationProgress(d)
       \/ \E ch \in ChannelNames : SendMessage(ch)
       \/ ConsumerWake
       \/ \E s \in Subs, ok \in BOOLEAN : SendDone(s, ok)
    /\ UNCHANGED <<qvars, evars, ovars, rvars, avars, hvars, lvars, cvars>>

\* The pairs discarded by the consumer in this step: a subscriber that
\* leaves a channel's set in a step of _process_broadcasts.
PrunedNow ==
    {p \in Subs \X DOMAIN active_connections :
        /\ p[1] \in active_connections[p[2]]
        /\ p[2] \in DOMAIN active_connections'
        /\ p[1] \notin active_connections'[p[2]]}

\* How a disconnect call found its subscriber.
DisconnectCase(s, ch) ==
    IF ch \notin DOMAIN active_connections THEN "no_channel"
    ELSE IF s \in active_connections[ch] THEN "member"
    ELSE IF <<s, ch>> \in pruned THEN "pruned"
    ELSE "absent"

\* The channels of the observed calls: the one with a snapshot, one more
\* of those __init__ creates, and one that a connect creates.
ObservedChannels == {"devices", "alerts", "custom"}

\* The pub-sub with its connect and disconnect calls observed: the steps
\* of NextBroadcast, each call leaving a record of how it ended.  Of the
\* producers, which differ in channel and type of the message only, the
\* two of the alerts and the devices channel are kept.
NextPubSub ==
    /\ \/ /\ \/ Start
             \/ StopCall
             \/ ConsumerCancelled
             \/ StopReturn
             \/ BroadcastAlert
             \/ \E d \in Devices : BroadcastDeviceStatus(d)
             \/ ConsumerWake
             \/ \E s \in Subs, ok \in BOOLEAN : SendDone(s, ok)
          /\ last_call' = NoCall
          /\ pruned' = pruned \cup PrunedNow
       \/ \E s \in Subs, ch \in ObservedChannels, sendOk \in BOOLEAN :
             /\ Connect(s, ch, sendOk)
             /\ last_call' = [op |-> "connect", sub |-> s, channel |-> ch,
                              sent |-> SnapshotDue(ch) /\ sendOk,
                              failed |-> SnapshotDue(ch) /\ ~sendOk]
             /\ pruned' = pruned \ {<<s, ch>>}
       \/ \E s \in Subs, ch \in ObservedChannels :
             /\ Disconnect(s, ch)
             /\ last_call' = [op |-> "disconnect",
                              found |-> DisconnectCase(s, ch),
                              raised |-> DisconnectResult(s, ch).raised]
             /\ UNCHANGED pruned
    /\ UNCHANGED <<qvars, evars, rvars, avars, hvars, lvars, cvars>>

\* ------------------------------------------------ the device registry
\* The tasks that call scan_devices: initialize (line 43), the periodic
\* task (line 61) and a request of the API.
Scanners == {"init", "periodic", "manual"}
NoScanner == "none"

\* The second column of a line of `adb devices -l`; "recovery" stands for
\* the states scan_devices does not list in line 86.
ChannelStates == {"device", "unauthorized", "offline", "recovery"}
AcceptedStates == {"device", "unauthorized", "offline"}

\* The model: token of a line, "none" when the line has no such token.
ModelTokens == {"Pixel", "none"}

\* What the listing says of one id; Unlisted when it has no line for it.
Unlisted == [status |-> "unlisted", model |-> "none"]
Entries == {Unlisted} \cup [status : ChannelStates, model : ModelTokens]
Listings == [Devices -> Entries]
NoListing == [d \in Devices |-> Unlisted]

NoScan == [task |-> NoScanner]
NoHeld == [op |-> "none"]

InitRegistry ==
    /\ devices = <<>>
    /\ scan_lock = NoScanner
    /\ scan_waiters = <<>>
    /\ scan_pc = [t \in Scanners |->
                    CASE t = "init" -> "new"
                      [] t = "periodic" -> "none"
                      [] OTHER -> "idle"]
    /\ shutdown_pc = "idle"
    /\ held = NoHeld
    /\ last_scan = NoScan
    /\ prev_listing = <<>>

\* Lines 90-93: the model is "Unknown" unless the line has a model: token.
ParsedModel(e) == IF e.model = "none" THEN "Unknown" ELSE e.model

\* Device.__init__ called in line 100.
NewDevice(e) ==
    [status |-> e.status, model |-> ParsedModel(e), running |-> FALSE,
     last_command_status |-> None]

\* An update that builds the Device anew.
UpdatedAsNew(dev, e) == NewDevice(e)

\* Lines 97-98: status and model of the known Device are assigned.
Updated(dev, e) ==
    [dev EXCEPT !.status = e.status, !.model = ParsedModel(e)]

\* The ids of current_devices after the loop of lines 76-102: the lines
\* whose state is one of line 86.
CurrentDevices(listing) ==
    {d \in Devices : listing[d].status \in AcceptedStates}

\* A scan that removes nothing.
RemovedNone(devs, current) == devs

\* Lines 105-108: the ids not in current_devices are deleted.
Removed(devs, current) == [d \in DOMAIN devs \cap current |-> devs[d]]

\* Lines 72-108: the registry after a listing has been parsed.
Reconcile(devs, listing) ==
    LET current == CurrentDevices(listing)
        parsed == [d \in DOMAIN devs \cup current |->
                     IF d \notin current THEN devs[d]
                     ELSE IF d \in DOMAIN devs
                          THEN Updated(devs[d], listing[d])
                          ELSE NewDevice(listing[d])]
    IN  Removed(parsed, current)

\* A failed scan that marks every known device offline and raises.
OnScanErrorMarkOffline(devs) ==
    [devices |-> [d \in DOMAIN devs |-> [devs[d] EXCEPT !.status = "offline"]],
     raised |-> TRUE]

\* Lines 113-115: the exception of _run_adb_command is logged and [] is
\* returned; nothing was assigned before it.
OnScanError(devs) == [devices |-> devs, raised |-> FALSE]

\* A lock that anyone may take.
ScanLockAlwaysFree == TRUE

\* asyncio.Lock.acquire returns at once when the lock is not held and no
\* task waits for it.
ScanLockFree == scan_lock = NoScanner /\ scan_waiters = <<>>

\* shutdown has cancelled the periodic task, which has not ended yet: the
\* task's next step is the CancelledError at its suspension point.
CancelPending(t) ==
    t = "periodic" /\ shutdown_pc = "awaiting" /\ scan_pc["periodic"] # "done"

\* Where a task is before it calls scan_devices.
ReadyPc(t) ==
    CASE t = "init" -> "new" [] t = "periodic" -> "sleeping" [] OTHER -> "idle"

\* The positions after scan_devices has returned to task t: initialize
\* goes on to create the periodic task (line 44), the periodic task to its
\* next sleep (line 60).
AfterScan(t) ==
    CASE t = "init" -> [scan_pc EXCEPT !["init"] = "done",
                                       !["periodic"] = "sleeping"]
      [] t = "periodic" -> [scan_pc EXCEPT !["periodic"] = "sleeping"]
      [] OTHER -> [scan_pc EXCEPT ![t] = "idle"]

\* scan_devices is called by task t (for the periodic task: its sleep has
\* elapsed): with the lock it goes on to the listing query of line 71,
\* else it waits in line 69.
ScanCall(t) ==
    /\ scan_pc[t] = ReadyPc(t)
    /\ ~CancelPending(t)
    /\ shutdown_pc = "idle" \/ t # "init"
    /\ IF ScanLockFree
       THEN /\ scan_lock' = t
            /\ scan_pc' = [scan_pc EXCEPT ![t] = "querying"]
            /\ UNCHANGED scan_waiters
       ELSE /\ scan_waiters' = Append(scan_waiters, t)
            /\ scan_pc' = [scan_pc EXCEPT ![t] = "waitlock"]
            /\ UNCHANGED scan_lock
    /\ last_scan' = NoScan
    /\ UNCHANGED <<devices, shutdown_pc, held, prev_listing>>

\* The first waiter gets the released lock and starts its query.
ScanLockAcquired(t) ==
    /\ scan_lock = NoScanner
    /\ scan_waiters # <<>>
    /\ Head(scan_waiters) = t
    /\ ~CancelPending(t)
    /\ scan_lock' = t
    /\ scan_waiters' = Tail(scan_waiters)
    /\ scan_pc' = [scan_pc EXCEPT ![t] = "querying"]
    /\ last_scan' = NoScan
    /\ UNCHANGED <<devices, shutdown_pc, held, prev_listing>>

\* The held Device after the registry became devs: the request's object is
\* no longer the registry's once its id was deleted.
HeldAfter(devs) ==
    IF held # NoHeld /\ held.device \notin DOMAIN devs
    THEN [held EXCEPT !.stale = TRUE]
    ELSE held

\* `adb devices -l` exits with 0 and the listing: lines 72-111, without a
\* suspension; the lock is released on return.
QueryAnswers(t, listing) ==
    /\ scan_pc[t] = "querying"
    /\ ~CancelPending(t)
    /\ devices' = Reconcile(devices, listing)
    /\ held' = HeldAfter(devices')
    /\ scan_lock' = IF scan_lock = t THEN NoScanner ELSE scan_lock
    /\ scan_pc' = AfterScan(t)
    /\ last_scan' = [task |-> t, ok |-> TRUE, raised |-> FALSE,
                     listing |-> listing,
                     repeat |-> prev_listing = <<listing>>]
    /\ prev_listing' = <<listing>>
    /\ UNCHANGED <<scan_waiters, shutdown_pc>>

\* adb cannot be started or exits with an error: _run_adb_command raises
\* (lines 140-148) and scan_devices handles it.
QueryFails(t) ==
    /\ scan_pc[t] = "querying"
    /\ ~CancelPending(t)
    /\ LET r == OnScanError(devices)
       IN  /\ devices' = r.devices
           /\ held' = HeldAfter(devices')
           /\ last_scan' = [task |-> t, ok |-> FALSE, raised |-> r.raised,
                            listing |-> NoListing, repeat |-> FALSE]
    /\ scan_lock' = IF scan_lock = t THEN NoScanner ELSE scan_lock
    /\ scan_pc' = AfterScan(t)
    /\ UNCHANGED <<scan_waiters, shutdown_pc, prev_listing>>

\* DeviceManager.shutdown up to its await: without a periodic task it
\* returns at once, else the task is cancelled (lines 48-51).  The lifespan
\* of the server calls it after initialize has returned.
ShutdownCall ==
    /\ shutdown_pc = "idle"
    /\ scan_pc["init"] \in {"new", "done"}
    /\ shutdown_pc' = IF scan_pc["periodic"] = "none" THEN "returned"
                      ELSE "awaiting"
    /\ last_scan' = NoScan
    /\ UNCHANGED <<devices, scan_lock, scan_waiters, scan_pc, held,
                   prev_listing>>

\* Without t.
RECURSIVE Without(_, _)
Without(s, t) ==
    IF s = <<>> THEN <<>>
    ELSE IF Head(s) = t THEN Without(Tail(s), t)
    ELSE <<Head(s)>> \o Without(Tail(s), t)

\* The periodic task is resumed with CancelledError in its sleep, in
\* acquire() or in the listing query: `async with` releases a held lock,
\* line 113 does not catch it, line 62 does and the loop ends.
PeriodicCancelled ==
    /\ CancelPending("periodic")
    /\ scan_pc["periodic"] \in {"sleeping", "waitlock", "querying"}
    /\ scan_pc' = [scan_pc EXCEPT !["periodic"] = "done"]
    /\ scan_waiters' = Without(scan_waiters, "periodic")
    /\ scan_lock' = IF scan_lock = "periodic" THEN NoScanner ELSE scan_lock
    /\ last_scan' = NoScan
    /\ UNCHANGED <<devices, shutdown_pc, held, prev_listing>>

\* An await that does not wait.
TaskEndedOrNot(pc) == TRUE

\* `await self.scan_task` (line 51) is resumed when the task has ended.
TaskEnded(pc) == pc = "done"

\* shutdown is resumed when the task has ended (lines 51-54).
ShutdownReturn ==
    /\ shutdown_pc = "awaiting"
    /\ TaskEnded(scan_pc["periodic"])
    /\ shutdown_pc' = "returned"
    /\ last_scan' = NoScan
    /\ UNCHANGED <<devices, scan_lock, scan_waiters, scan_pc, held,
                   prev_listing>>

\* A start or stop request finds its device (get_device) and awaits the
\* command executor, holding the Device.
SimulationCall(d, op) ==
    /\ held = NoHeld
    /\ d \in DOMAIN devices
    /\ held' = [op |-> op, device |-> d, stale |-> FALSE]
    /\ last_scan' = NoScan
    /\ UNCHANGED <<devices, scan_lock, scan_waiters, scan_pc, shutdown_pc,
                   prev_listing>>

\* The executor has answered: on success the held Device gets its running
\* flag, which shows in the registry when the registry still holds it.
SimulationDone(ok) ==
    /\ held # NoHeld
    /\ devices' = IF ok /\ ~held.stale
                  THEN [devices EXCEPT ![held.device].running =
                                          (held.op = "start"),
                                       ![held.device].last_command_status =
                                          IF held.op = "start"
                                          THEN "simulation_started"
                                          ELSE "simulation_stopped"]
                  ELSE devices
    /\ held' = NoHeld
    /\ last_scan' = NoScan
    /\ UNCHANGED <<scan_lock, scan_waiters, scan_pc, shutdown_pc, prev_listing>>

NextRegistry ==
    /\ \/ \E t \in Scanners : ScanCall(t)
       \/ \E t \in Scanners : ScanLockAcquired(t)
       \/ \E t \in Scanners, listing \in Listings : QueryAnswers(t, listing)
       \/ \E t \in Scanners : QueryFails(t)
       \/ ShutdownCall
       \/ PeriodicCancelled
       \/ ShutdownReturn
       \/ \E d \in Devices, op \in {"start", "stop"} : SimulationCall(d, op)
       \/ \E ok \in BOOLEAN : SimulationDone(ok)
    /\ UNCHANGED <<qvars, evars, bvars, ovars, avars, hvars, lvars, cvars>>

\* The command executor next to a pub-sub that has been started.
NextExecEffects ==
    \/ NextExec
    \/ Start /\ UNCHANGED <<qvars, evars, ovars, rvars, avars, hvars, lvars, cvars>>

\* Start requests of the API side by side with scans; the request that
\* a step answers and its result are kept in last_call.
NextStartVsScan ==
    /\ \/ /\ \/ \E t \in Scanners : ScanCall(t)
             \/ \E t \in Scanners : ScanLockAcquired(t)
             \/ \E t \in Scanners, listing \in Listings :
                   QueryAnswers(t, listing)
             \/ \E d \in Devices : SimulationCall(d, "start")
          /\ last_call' = NoCall
       \/ \E ok \in BOOLEAN :
             /\ SimulationDone(ok)
             /\ last_call' = [op |-> "start_simulation",
                              device |-> held.device, success |-> ok]
    /\ UNCHANGED <<qvars, evars, bvars, pruned, avars, hvars, lvars, cvars>>

\* ------------------------------------------------- the alert pipeline
MaxAlerts == 2
NumHandlers == 2
Handlers == 1..NumHandlers
NoDispatch == [alert |-> 0]
\* the values of the AlertType enumeration
AlertTypes == {"info", "warning", "error", "critical"}
\* type strings a caller passes: one of the enumeration, one outside it
TypeStrings == {"error", "fatal"}
max_history == 1000
NoAlertCall == [op |-> "none"]

InitHistory ==
    /\ alert_history = <<>>
    /\ last_alert_call = NoAlertCall

\* self.alert_queue = None of __init__: no queue yet.  Alerts are numbered
\* from 1, so no queue of alerts has this value.
NoQueue == <<0>>

InitAlerts ==
    /\ alert_handlers = <<>>
    /\ alert_queue = NoQueue
    /\ alert_task = None
    /\ dispatch = NoDispatch
    /\ handled = [h \in Handlers |-> <<>>]
    /\ alert_count = 0

\* The consumer from the head of its loop (line 94) to its next
\* suspension: an alert popped while no handler is registered is done on
\* the spot; with the queue empty it waits in get(); else it is in
\* handle_alert of the first handler.
RECURSIVE NextAlert(_, _, _)
NextAlert(items, hs, hd) ==
    IF items = <<>> THEN [items |-> items, dispatch |-> NoDispatch,
                          handled |-> hd]
    ELSE IF hs = <<>> THEN NextAlert(Tail(items), hs, hd)
    ELSE [items |-> Tail(items),
          dispatch |-> [alert |-> Head(items), pos |-> 1],
          handled |-> [hd EXCEPT ![hs[1]] = Append(@, Head(items))]]

\* AlertManager.register_handler
RegisterHandler(h) ==
    /\ \A i \in 1..Len(alert_handlers) : alert_handlers[i] # h
    /\ alert_handlers' = Append(alert_handlers, h)
    /\ UNCHANGED <<alert_queue, alert_task, dispatch, handled, alert_count>>

\* AlertManager.start
AlertStart ==
    /\ IF alert_task = None
       THEN /\ alert_queue' = <<>>
            /\ alert_task' = "running"
       ELSE UNCHANGED <<alert_queue, alert_task>>
    /\ UNCHANGED <<alert_handlers, dispatch, handled, alert_count>>

\* AlertManager.stop up to its await: the task is cancelled.
AlertStopCall ==
    /\ alert_task = "running"
    /\ alert_task' = "cancelling"
    /\ UNCHANGED <<alert_handlers, alert_queue, dispatch, handled, alert_count>>

\* The consumer is resumed with CancelledError, in get() or in a
\* handler; line 98 does not catch it, line 101 does and the loop ends.
AlertConsumerCancelled ==
    /\ alert_task = "cancelling"
    /\ alert_task' = "finished"
    /\ dispatch' = NoDispatch
    /\ UNCHANGED <<alert_handlers, alert_queue, handled, alert_count>>

\* stop() is resumed after the task has finished (lines 58-62).
AlertStopReturn ==
    /\ alert_task = "finished"
    /\ alert_task' = None
    /\ UNCHANGED <<alert_handlers, alert_queue, dispatch, handled, alert_count>>

\* asyncio.Queue.put on the unbounded alert queue (line 85): the item
\* goes to the tail.
AlertPutFront(items, a) == <<a>> \o items
AlertPut(items, a) == Append(items, a)

\* AlertManager.send_alert with a valid alert type: nothing without a
\* queue, else the alert is put on it.
SendAlert ==
    /\ alert_count < MaxAlerts
    /\ IF alert_queue = NoQueue
       THEN UNCHANGED <<alert_queue, alert_count>>
       ELSE /\ alert_queue' = AlertPut(alert_queue, alert_count + 1)
            /\ alert_count' = alert_count + 1
    /\ UNCHANGED <<alert_handlers, alert_task, dispatch, handled>>

\* The way send_alert ends for a type string: the queue test of line 72
\* comes first, then AlertType(alert_type) of line 77, outside the try
\* of line 84, raises ValueError for a string that is no member.
SendAlertCase(ty) ==
    IF alert_queue = NoQueue THEN "no_queue"
    ELSE IF ty \notin AlertTypes THEN "ValueError"
    ELSE "queued"

\* AlertManager.send_alert with any type string.
SendAlertTyped(ty) ==
    IF SendAlertCase(ty) = "ValueError" THEN UNCHANGED avars ELSE SendAlert

\* The consumer, waiting in get(), is resumed by a put.
AlertConsumerWake ==
    /\ alert_task = "running"
    /\ dispatch = NoDispatch
    /\ alert_queue # <<>>
    /\ LET n == NextAlert(alert_queue, alert_handlers, handled)
       IN  /\ alert_queue' = n.items
           /\ dispatch' = n.dispatch
           /\ handled' = n.handled
    /\ UNCHANGED <<alert_handlers, alert_task, alert_count>>

\* handle_alert of the awaited handler returns (ok) or raises: lines
\* 95-100.  The next handler of the list is called; after the last one
\* the loop goes round to the next alert.  HandlerOutcome is where the
\* for loop goes after the handler: line 98 catches what it raised.
HandlerOutcomeAbort(ok) == IF ok THEN "next_handler" ELSE "next_alert"
HandlerOutcome(ok) == "next_handler"

HandlerDone(ok) ==
    /\ alert_task = "running"
    /\ dispatch # NoDispatch
    /\ IF HandlerOutcome(ok) = "next_handler"
          /\ dispatch.pos < Len(alert_handlers)
       THEN /\ dispatch' = [dispatch EXCEPT !.pos = @ + 1]
            /\ handled' = [handled EXCEPT
                             ![alert_handlers[dispatch.pos + 1]] =
                                 Append(@, dispatch.alert)]
            /\ UNCHANGED alert_queue
       ELSE LET n == NextAlert(alert_queue, alert_handlers, handled)
            IN  /\ alert_queue' = n.items
                /\ dispatch' = n.dispatch
                /\ handled' = n.handled
    /\ UNCHANGED <<alert_handlers, alert_task, alert_count>>

AlertStep ==
    \/ \E h \in Handlers : RegisterHandler(h)
    \/ AlertStart
    \/ AlertStopCall
    \/ AlertConsumerCancelled
    \/ AlertStopReturn
    \/ SendAlert
    \/ AlertConsumerWake
    \/ \E ok \in BOOLEAN : HandlerDone(ok)

\* The alert manager with callers that pass any type string; the call
\* made by a step and its outcome are kept in last_alert_call.
NextAlerts ==
    /\ \/ /\ \/ \E h \in Handlers : RegisterHandler(h)
             \/ AlertStart
             \/ AlertStopCall
             \/ AlertConsumerCancelled
             \/ AlertStopReturn
             \/ AlertConsumerWake
          /\ last_alert_call' = NoAlertCall
       \/ \E ty \in TypeStrings :
             /\ SendAlertTyped(ty)
             /\ last_alert_call' = [op |-> "send_alert",
                                    outcome |-> SendAlertCase(ty)]
       \/ \E ok \in BOOLEAN :
             /\ HandlerDone(ok)
             /\ last_alert_call' = [op |-> "handle_alert", ok |-> ok]
    /\ UNCHANGED <<qvars, evars, bvars, ovars, rvars, alert_history, lvars, cvars>>

\* What the event loop runs when it can: the consumer task, resumed by a
\* put, by a handler that returns or by its cancellation, and the caller
\* of stop() once the task has ended.
AlertLoopStep ==
    \/ AlertConsumerWake
    \/ \E ok \in BOOLEAN : HandlerDone(ok)
    \/ AlertConsumerCancelled
    \/ AlertStopReturn

\* The alert manager stopped and started again; the handlers are
\* registered while it is not running and before the first alert, as the
\* module does on import (line 220).
NextAlertsRestart ==
    /\ \/ \E h \in Handlers : alert_task = None /\ alert_count = 0 /\ RegisterHandler(h)
       \/ AlertStart
       \/ AlertStopCall
       \/ SendAlert
       \/ AlertLoopStep
    /\ UNCHANGED <<qvars, evars, bvars, ovars, rvars, hvars, lvars, cvars>>

\* ------------------------------------------------- the alert history
MaxHistory == 2
MaxLimit == 2
Levels == {"info", "error"}
\* Lists of history entries in order of arrival, entry i being the i-th
\* alert recorded.
Histories ==
    UNION {[1..n -> [level : Levels, device_id : Devices]] : n \in 0..MaxHistory}
Entry(h, i) == [id |-> i, level |-> h[i].level, device_id |-> h[i].device_id]

\* lines 113-116: a filter is applied only for an argument that is true
Matching(hist, level, device_id) ==
    LET Test(a) == /\ level # None => a.level = level
                   /\ device_id # NoDev => a.device_id = device_id
    IN  SelectSeq(hist, Test)

\* filtered[-limit:] of line 118: the last limit items in list order;
\* -0 is 0, the slice from index 0 is the whole list.
LastN(s, n) ==
    IF n = 0 \/ n >= Len(s) THEN s ELSE SubSeq(s, Len(s) - n + 1, Len(s))

\* AlertManager.get_alert_history
GetAlertHistory(hist, level, device_id, limit) ==
    LastN(Matching(hist, level, device_id), limit)

GetHistoryCall(level, device_id, limit) ==
    /\ last_alert_call' =
           [op |-> "get_alert_history", level |-> level,
            device_id |-> device_id, limit |-> limit,
            result |-> GetAlertHistory(alert_history, level, device_id,
                                       limit)]
    /\ UNCHANGED alert_history

HistoryInputs ==
    /\ \E h \in Histories : alert_history = [i \in DOMAIN h |-> Entry(h, i)]
    /\ last_alert_call = NoAlertCall

NextHistory ==
    /\ \E level \in Levels \cup {None}, device_id \in Devices \cup {NoDev},
          limit \in 0..MaxLimit : GetHistoryCall(level, device_id, limit)
    /\ UNCHANGED <<qvars, evars, bvars, ovars, rvars, avars, lvars, cvars>>

\* ------------------------------------------- the loop affinity guard
NumLoops == 2
MaxCalls == 2
Loops == 1..NumLoops
NoLoop == 0

InitLoops ==
    /\ manager_loop = NoLoop
    /\ loop_state = [l \in Loops |-> "new"]
    /\ calls = <<>>

\* The thread of a loop runs it, stops it, closes it.
RunLoop(l) ==
    /\ loop_state[l] \in {"new", "stopped"}
    /\ loop_state' = [loop_state EXCEPT ![l] = "running"]
    /\ UNCHANGED <<manager_loop, calls>>

StopLoop(l) ==
    /\ loop_state[l] = "running"
    /\ loop_state' = [loop_state EXCEPT ![l] = "stopped"]
    /\ UNCHANGED <<manager_loop, calls>>

CloseLoop(l) ==
    /\ loop_state[l] \in {"new", "stopped"}
    /\ loop_state' = [loop_state EXCEPT ![l] = "closed"]
    /\ UNCHANGED <<manager_loop, calls>>

\* LoopManager.get_loop: the loop already bound, else the one given
\* (the running loop of the caller, or a new loop when it has none).
BoundLoop(found) == IF manager_loop = NoLoop THEN found ELSE manager_loop

\* get_loop called from code running on loop l (lines 16-19).
GetLoop(l) ==
    /\ loop_state[l] = "running"
    /\ manager_loop = NoLoop
    /\ manager_loop' = BoundLoop(l)
    /\ UNCHANGED <<loop_state, calls>>

\* get_loop called where no loop is running (lines 20-22): a loop is
\* created and bound, and nothing runs it.
GetLoopOutside(l) ==
    /\ loop_state[l] = "new"
    /\ manager_loop = NoLoop
    /\ manager_loop' = BoundLoop(l)
    /\ UNCHANGED <<loop_state, calls>>

\* The loop on which run_coroutine_threadsafe (line 74) has the
\* function executed.
MarshalTargetCaller(caller, owner) == caller
MarshalTarget(caller, owner) == owner

\* The wrapper of ensure_same_loop called on the running loop l, up to
\* its return or its await of line 75: on the owning loop the function
\* is awaited on the spot; else it is scheduled on the owning loop,
\* which call_soon_threadsafe refuses with RuntimeError when that loop
\* is closed.
Call(l) ==
    /\ Len(calls) < MaxCalls
    /\ loop_state[l] = "running"
    /\ manager_loop' = BoundLoop(l)
    /\ calls' = Append(calls,
         IF BoundLoop(l) = l
         THEN [from |-> l, pc |-> "returned", ran_on |-> l,
               result |-> Len(calls) + 1]
         ELSE IF loop_state[BoundLoop(l)] = "closed"
         THEN [from |-> l, pc |-> "raised", ran_on |-> NoLoop, result |-> 0]
         ELSE [from |-> l, pc |-> "scheduled", ran_on |-> NoLoop,
               result |-> 0])
    /\ UNCHANGED loop_state

\* The owning loop, running, executes a scheduled function and sets the
\* result of its future.
Execute(k) ==
    /\ k \in 1..Len(calls)
    /\ calls[k].pc = "scheduled"
    /\ loop_state[manager_loop] = "running"
    /\ calls' = [calls EXCEPT ![k] =
                   [from |-> @.from, pc |-> "done",
                    ran_on |-> MarshalTarget(@.from, manager_loop),
                    result |-> k]]
    /\ UNCHANGED <<manager_loop, loop_state>>

\* The caller's loop resumes the wrapper with the result (line 75).
Resume(k) ==
    /\ k \in 1..Len(calls)
    /\ calls[k].pc = "done"
    /\ loop_state[calls[k].from] = "running"
    /\ calls' = [calls EXCEPT ![k].pc = "returned"]
    /\ UNCHANGED <<manager_loop, loop_state>>

LoopStep ==
    \/ \E l \in Loops : RunLoop(l)
    \/ \E l \in Loops : StopLoop(l)
    \/ \E l \in Loops : CloseLoop(l)
    \/ \E l \in Loops : GetLoop(l)
    \/ \E l \in Loops : GetLoopOutside(l)
    \/ \E l \in Loops : Call(l)
    \/ \E k \in 1..MaxCalls : Execute(k)
    \/ \E k \in 1..MaxCalls : Resume(k)

NextLoops ==
    LoopStep /\ UNCHANGED <<qvars, evars, bvars, ovars, rvars, avars, hvars, cvars>>

\* ---------------------------------------- start and stop, many callers
\* start() and stop() of the alert manager (those of the WebSocket manager
\* are the same code) with every loop task and every caller kept apart.
MaxStarts == 3
NumStopCallers == 2
MaxQueued == 1

InitStartStop ==
    /\ consumers = <<>>
    /\ queued = <<>>
    /\ this_task = NoTask
    /\ stop_waiters = <<>>

\* The loop tasks that have not ended.
live_tasks == {t \in 1..Len(consumers) : consumers[t].state # "done"}

\* self.alert_queue: the queue made by the latest start() that made one.
this_queue == Len(queued)

\* A caller of stop() is to be resumed: the task it awaits is done.  The
\* wake-ups of the callers that await one task are scheduled one after the
\* other, so no other task runs before the last of them.
Resuming ==
    \E i \in 1..Len(stop_waiters) : consumers[stop_waiters[i].task].state = "done"

\* The body of start(): without a task a queue is created (create_queue
\* does not suspend) and a loop task, which goes to get() of that queue.
StartBody(task, made, qs) ==
    IF task = NoTask
    THEN [task |-> Len(made) + 1,
          made |-> Append(made, [state |-> "running", queue |-> Len(qs) + 1]),
          qs |-> Append(qs, 0)]
    ELSE [task |-> task, made |-> made, qs |-> qs]

\* AlertManager.start, called from a task of its own.
StartCall ==
    /\ ~Resuming
    /\ this_task = NoTask => Len(consumers) < MaxStarts
    /\ LET r == StartBody(this_task, consumers, queued)
       IN  /\ this_task' = r.task
           /\ consumers' = r.made
           /\ queued' = r.qs
    /\ UNCHANGED stop_waiters

\* AlertManager.stop up to its await: the task is cancelled and the caller
\* waits for it.  restart says that the caller goes on with start() when
\* stop() has returned.
StopAwait(restart) ==
    /\ ~Resuming
    /\ this_task # NoTask
    /\ Len(stop_waiters) < NumStopCallers
    /\ consumers' = [consumers EXCEPT ![this_task].state = "cancelling"]
    /\ stop_waiters' = Append(stop_waiters, [task |-> this_task, restart |-> restart])
    /\ UNCHANGED <<this_task, queued>>

\* The loop task is resumed with CancelledError and leaves its loop.
LoopCancelled(t) ==
    /\ t \in 1..Len(consumers)
    /\ consumers[t].state = "cancelling"
    /\ consumers' = [consumers EXCEPT ![t].state = "done"]
    /\ UNCHANGED <<this_task, queued, stop_waiters>>

\* The oldest caller of stop() is resumed: line 61 clears the field, and a
\* caller that restarts runs start() before anything else runs.
StopResume ==
    /\ stop_waiters # <<>>
    /\ consumers[Head(stop_waiters).task].state = "done"
    /\ Head(stop_waiters).restart => Len(consumers) < MaxStarts
    /\ LET r == IF Head(stop_waiters).restart
                THEN StartBody(NoTask, consumers, queued)
                ELSE [task |-> NoTask, made |-> consumers, qs |-> queued]
       IN  /\ this_task' = r.task
           /\ consumers' = r.made
           /\ queued' = r.qs
    /\ stop_waiters' = Tail(stop_waiters)

\* send_alert with a queue: the alert is put on self.alert_queue.
PutAlert ==
    /\ ~Resuming
    /\ this_queue > 0
    /\ queued[this_queue] < MaxQueued
    /\ queued' = [queued EXCEPT ![this_queue] = @ + 1]
    /\ UNCHANGED <<consumers, this_task, stop_waiters>>

\* One round of the loop of task t, with handlers that do not suspend:
\* get() returns an item of the queue the task waits on, the handlers
\* run, and line 94 reads self.alert_queue again for the next get().
LoopRound(t) ==
    /\ ~Resuming
    /\ t \in 1..Len(consumers)
    /\ consumers[t].state = "running"
    /\ queued[consumers[t].queue] > 0
    /\ queued' = [queued EXCEPT ![consumers[t].queue] = @ - 1]
    /\ consumers' = [consumers EXCEPT ![t].queue = this_queue]
    /\ UNCHANGED <<this_task, stop_waiters>>

NextStartStop ==
    /\ \/ StartCall
       \/ \E restart \in BOOLEAN : StopAwait(restart)
       \/ \E t \in 1..MaxStarts : LoopCancelled(t)
       \/ StopResume
       \/ PutAlert
       \/ \E t \in 1..MaxStarts : LoopRound(t)
    /\ UNCHANGED <<qvars, evars, bvars, ovars, rvars, avars, hvars, lvars>>

\* ------------------------------------------- the three loops together
\* The registry, the alert pipeline and the pub-sub side by side, each
\* with the steps that bring its loop to each of its suspension points
\* and that start and stop it: scans of an empty listing, one alert
\* handler, one subscriber of the alerts channel.
NextLifecycle ==
    \/ /\ \/ \E t \in Scanners : ScanCall(t)
          \/ \E t \in Scanners : ScanLockAcquired(t)
          \/ \E t \in Scanners : QueryAnswers(t, NoListing)
          \/ ShutdownCall
          \/ PeriodicCancelled
          \/ ShutdownReturn
       /\ UNCHANGED <<qvars, evars, bvars, ovars, avars, hvars, lvars, cvars>>
    \/ /\ \/ RegisterHandler(1)
          \/ AlertStart
          \/ AlertStopCall
          \/ AlertConsumerCancelled
          \/ AlertStopReturn
          \/ SendAlert
          \/ AlertConsumerWake
          \/ \E ok \in BOOLEAN : HandlerDone(ok)
       /\ UNCHANGED <<qvars, evars, bvars, ovars, rvars, hvars, lvars, cvars>>
    \/ /\ \/ Start
          \/ StopCall
          \/ ConsumerCancelled
          \/ StopReturn
          \/ Connect(1, "alerts", TRUE)
          \/ BroadcastAlert
          \/ ConsumerWake
          \/ \E ok \in BOOLEAN : SendDone(1, ok)
       /\ UNCHANGED <<qvars, evars, ovars, rvars, avars, hvars, lvars, cvars>>

\* ------------------------------------------------------------- claims
InSeq(s, x) == \E i \in 1..Len(s) : s[i] = x
Pos(s, x) == CHOOSE i \in 1..Len(s) : s[i] = x
Before(s, x, y) == InSeq(s, x) /\ InSeq(s, y) /\ Pos(s, x) < Pos(s, y)
Known == 1..Len(cmds)
RunningOf(d) == {c \in Known : cmds[c].device = d /\ cmds[c].status = "running"}

\* C1: mutual exclusion - at no instant do two commands of one device both
\* have status running, whatever the interleaving of add_command calls and
\* of concurrent process_queue calls.
C1_MutualExclusion == \A d \in Devices : Cardinality(RunningOf(d)) <= 1

\* A second drain of the device waits at the lock while the first executes
\* a command and another command of the device is queued.
C1_Witness ==
    \E d \in Devices, t1, t2 \in DrainTasks :
        /\ tasks[t1].pc = "executing" /\ tasks[t1].device = d
        /\ tasks[t2].pc = "waitlock" /\ tasks[t2].device = d
        /\ queues[d] # <<>>

\* The commands line 41 marks running in the step.
NewlyStarted == {started'[i] : i \in (Len(started) + 1)..Len(started')}

\* C6: priority order within a device - when a drain marks c1 running while
\* c2 of the same device, accepted by add_command like c1, is pending with
\* a higher priority, c2 has been marked running before c1.
C6_PriorityOrder ==
    [][\A c1 \in NewlyStarted : \A c2 \in Known :
          (/\ cmds[c1].add = "accepted" /\ cmds[c2].add = "accepted"
           /\ cmds[c2].device = cmds[c1].device
           /\ cmds[c2].status = "pending"
           /\ cmds[c2].priority > cmds[c1].priority)
          => Before(started', c2, c1)]_vars

\* C7: ties are broken by arrival order - of two commands of one device
\* with equal priority, add_command accepts both and the one that arrived
\* first is started first.
C7_TiesByArrival ==
    \A c1, c2 \in Known :
        (/\ c1 < c2
         /\ cmds[c1].device = cmds[c2].device
         /\ cmds[c1].priority = cmds[c2].priority)
        => /\ cmds[c1].add = "accepted"
           /\ cmds[c2].add = "accepted"
           /\ InSeq(started, c2) => Before(started, c1, c2)

\* An accepted command that is still pending is in the queue of its device.
NoLoss == \A c \in Known :
    (cmds[c].add = "accepted" /\ cmds[c].status = "pending")
    => InSeq(queues[cmds[c].device], c)

NoDuplicateStart == \A i, j \in 1..Len(started) : started[i] = started[j] => i = j

\* C8: add_command is safe concurrently with process_queue - no accepted
\* command is lost, none is started twice, and when a drain returns having
\* seen the queue empty no accepted command of the device is left pending.
C8_NoLossNoDuplicate ==
    [][/\ NoLoss'
       /\ NoDuplicateStart'
       /\ \A t \in DrainTasks :
             (tasks'[t] # tasks[t] /\ tasks'[t].pc = "idle"
              /\ tasks'[t].exit = "returned")
             => \A c \in 1..Len(cmds') :
                   (cmds'[c].device = tasks'[t].device /\ cmds'[c].add = "accepted")
                   => cmds'[c].status \in {"completed", "failed"}]_vars

AllFailed(log) == \A i \in 1..Len(log) : log[i].outcome # "ok"

\* C2: retry bound - a call never makes a fourth attempt; a call whose
\* attempts all fail makes exactly 3 of them, returns failure and sends
\* exactly one alert, of type error or critical, that carries the command
\* id; no alert is sent before the third failure.
C2_RetryBound ==
    /\ Len(ex_log) <= 3
    /\ Len(ex_alerts) <= 1
    /\ (ex_pc = "returned" /\ AllFailed(ex_log)) => Len(ex_log) = 3
    /\ (Len(ex_log) < 3 /\ AllFailed(ex_log)) => ex_alerts = <<>>
    /\ (Len(ex_log) = 3 /\ AllFailed(ex_log))
       => /\ ex_pc = "returned"
          /\ ex_result = "false"
          /\ Len(ex_alerts) = 1
          /\ ex_alerts[1].type \in {"error", "critical"}
          /\ ex_alerts[1].command_id = ex_id

\* Three failed attempts of a known command type, the last two after a
\* backoff, and the call has returned failure.
C2_Witness ==
    /\ ex_pc = "returned"
    /\ ex_result = "false"
    /\ Len(ex_log) = 3
    /\ ex_log[3].outcome = "fail"
    /\ ex_sleeps = 2
    /\ Len(ex_alerts) = 1

\* C3: success short-circuit - a successful attempt k is the last attempt
\* of its call: the call has returned success, after k - 1 backoff sleeps
\* and without an alert.
C3_SuccessShortCircuit ==
    \A k \in 1..Len(ex_log) :
        ex_log[k].outcome = "ok"
        => /\ k = Len(ex_log)
           /\ ex_pc = "returned"
           /\ ex_result = "true"
           /\ ex_sleeps = k - 1
           /\ ex_alerts = <<>>

\* The second attempt succeeded after a failed first one.
C3_Witness ==
    /\ ex_pc = "returned"
    /\ ex_result = "true"
    /\ Len(ex_log) = 2
    /\ ex_log[1].outcome = "fail"

\* C4: the timeout of the command type bounds each attempt - no attempt is
\* still awaited once its timeout has passed, and an attempt that outlived
\* its timeout counts as failed.
C4_TimeoutPerAttempt ==
    /\ ~(ex_pc = "awaiting" /\ ex_late)
    /\ \A i \in 1..Len(ex_log) : ex_log[i].late => ex_log[i].outcome # "ok"

\* C5: every call returns - whatever the channel does, a call that is
\* awaiting an attempt or sleeping between attempts eventually returns.
C5_AlwaysReturns == (ex_pc \in {"awaiting", "backoff"}) ~> (ex_pc = "returned")

IsMessage(e) == e.kind = "message"

\* C9: broadcast ordering - whatever the producers and the channels, each
\* subscriber is sent the queued messages it gets in the order in which
\* they were put on the broadcast queue.
C9_BroadcastOrder ==
    \A s \in Subs : \A i, j \in 1..Len(rx[s]) :
        (i < j /\ IsMessage(rx[s][i]) /\ IsMessage(rx[s][j]))
        => rx[s][i].seq < rx[s][j].seq

\* A subscriber has been sent two queued messages.
C9_Witness ==
    \E s \in Subs : \E i, j \in 1..Len(rx[s]) :
        i < j /\ IsMessage(rx[s][i]) /\ IsMessage(rx[s][j])

\* A step of the running consumer inside a sweep: a send_text is over.
SweepStep ==
    /\ sweep # NoSweep
    /\ sweep' # sweep
    /\ processing_task = "running"
    /\ processing_task' = "running"

\* C10: subscriber failure isolation - a send that fails does not end the
\* sweep: the sweep goes on over the same copied set until every
\* subscriber in it has been tried; when it ends no subscriber whose send
\* failed is in the channel's set, the consumer is still running and it
\* is not left idle with a message queued.
C10_FailureIsolation ==
    [][SweepStep =>
        IF sweep' # NoSweep /\ sweep'.msg = sweep.msg
        THEN /\ sweep'.connections = sweep.connections
             /\ sweep.attempted \subseteq sweep'.attempted
             /\ Cardinality(sweep'.attempted) = Cardinality(sweep.attempted) + 1
             /\ sweep.disconnected \subseteq sweep'.disconnected
             /\ \A s \in sweep'.attempted \ sweep.attempted :
                   rx'[s] = rx[s] => s \in sweep'.disconnected
        ELSE LET remaining == sweep.connections \ sweep.attempted
                 failed == sweep.disconnected
                           \cup {s \in remaining : rx'[s] = rx[s]}
             IN  /\ Cardinality(remaining) = 1
                 /\ \A s \in failed :
                       s \notin active_connections'[sweep.msg.channel]
                 /\ ~(sweep' = NoSweep /\ broadcast_queue' # <<>>)]_vars

\* The send to one subscriber of the copied set has failed, the sweep is
\* going on to another subscriber, and a further message is queued.
C10_Witness ==
    /\ sweep # NoSweep
    /\ sweep.disconnected # {}
    /\ sweep.attempted # sweep.connections
    /\ processing_task = "running"
    /\ broadcast_queue # <<>>

\* C11: lazy cleanup idempotence - a disconnect call for a subscriber that
\* the consumer already pruned after a failed delivery, or that is not in
\* the channel's set, or for a channel that does not exist, raises nothing
\* and leaves every channel's subscriber set as it was.
C11_LazyCleanupIdempotent ==
    [][(last_call'.op = "disconnect" /\ last_call'.found # "member")
         => (~last_call'.raised /\ active_connections' = active_connections)]_vars

\* A disconnect call has just returned for a subscriber that the consumer
\* had pruned from the channel.
C11_Witness ==
    /\ last_call.op = "disconnect"
    /\ last_call.found = "pruned"
    /\ pruned # {}

ChannelsOf(s) ==
    {ch \in DOMAIN active_connections : s \in active_connections[ch]}

\* C12: a subscriber handle is a member of at most one channel's
\* subscriber set, whatever connect, disconnect and pruning steps ran.
C12_OneChannelPerSubscriber ==
    \A s \in Subs : Cardinality(ChannelsOf(s)) <= 1

\* C13: channels persist empty - a channel name that exists in the channel
\* map is never removed from it, also when a disconnect or a pruning takes
\* the last subscriber of the channel away.
C13_ChannelsPersist ==
    [][\A ch \in DOMAIN active_connections :
          ch \in DOMAIN active_connections']_vars

\* A disconnect has just removed a subscriber, and the channel that a
\* connect created is there with the empty set.
C13_Witness ==
    /\ last_call.op = "disconnect"
    /\ last_call.found = "member"
    /\ "custom" \in DOMAIN active_connections
    /\ \A ch \in DOMAIN active_connections : active_connections[ch] = {}

StatusKnown == \E d \in Devices : device_status[d] # 0
Snapshot == [kind |-> "snapshot", devices |-> device_status]

\* C14 as stated: a connect to the devices channel whose send succeeds has
\* delivered a snapshot of the status map to the subscriber before it
\* returns.
C14_SnapshotOnEveryDevicesConnect ==
    [][(last_call'.op = "connect" /\ last_call'.channel = "devices"
          /\ ~last_call'.failed)
         => rx'[last_call'.sub] = Append(rx[last_call'.sub], Snapshot)]_vars

\* C14, amended: connect registers the subscriber; on the devices channel
\* with a non-empty status map it sends that subscriber, before it returns,
\* a snapshot of the map; a failed snapshot send leaves the subscriber
\* registered; with an empty status map, or on any other channel, nothing
\* is sent.  No other subscriber is sent anything by a connect.
C14_SnapshotWhenStatusKnown ==
    [][last_call'.op = "connect"
         => LET s == last_call'.sub
                ch == last_call'.channel
            IN  /\ ch \in DOMAIN active_connections'
                /\ s \in active_connections'[ch]
                /\ last_call'.sent \/ last_call'.failed
                      <=> ch = "devices" /\ StatusKnown
                /\ rx' = IF last_call'.sent
                         THEN [rx EXCEPT ![s] = Append(@, Snapshot)]
                         ELSE rx]_vars

\* A connect to the devices channel has just returned after its snapshot
\* send failed: the subscriber is registered and got nothing.
C14_Witness ==
    /\ last_call.op = "connect"
    /\ last_call.channel = "devices"
    /\ last_call.failed
    /\ StatusKnown
    /\ last_call.sub \in active_connections["devices"]
    /\ rx[last_call.sub] = <<>>

ScanReturned == last_scan'.task # NoScanner
Listed(listing) == {d \in Devices : listing[d] # Unlisted}

C16_ReconcileIdempotent ==
    [][(ScanReturned /\ last_scan'.ok /\ last_scan'.repeat)
         => devices' = devices]_vars

\* The second of two scans with one listing has just returned, with a
\* running device in the registry.
C16_Witness ==
    /\ last_scan.task # NoScanner
    /\ last_scan.ok
    /\ last_scan.repeat
    /\ \E d \in DOMAIN devices : devices[d].running

\* C17: a failed scan leaves the registry exactly as it was and raises
\* nothing to its caller.
C17_FailedScanKeepsRegistry ==
    [][(ScanReturned /\ ~last_scan'.ok)
         => (devices' = devices /\ ~last_scan'.raised)]_vars

\* A scan has just failed with devices in the registry that are not
\* offline.
C17_Witness ==
    /\ last_scan.task # NoScanner
    /\ ~last_scan.ok
    /\ \E d \in DOMAIN devices : devices[d].status = "device"

\* C18: a device that a successful scan lists with channel state "device"
\* is in the registry with status "online".
C18_DeviceMeansOnline ==
    [][(ScanReturned /\ last_scan'.ok)
         => \A d \in Devices :
               last_scan'.listing[d].status = "device"
                  => (d \in DOMAIN devices'
                        /\ devices'[d].status = "online")]_vars

Querying == {t \in Scanners : scan_pc[t] = "querying"}

\* C19: scans never overlap - at no time are two scan_devices calls past
\* the lock, in their listing query or reconciliation; the holder of the
\* lock is the one that is.
C19_ScansNeverOverlap ==
    /\ Cardinality(Querying) <= 1
    /\ \A t \in Querying : scan_lock = t

\* The periodic scan is in its listing query and the scan of a request
\* waits for the lock.
C19_Witness ==
    /\ scan_pc["periodic"] = "querying"
    /\ scan_pc["manual"] = "waitlock"
    /\ scan_waiters = <<"manual">>

Messages(s) == SelectSeq(rx[s], IsMessage)

\* When DeviceManager.shutdown, AlertManager.stop or
\* WebSocketManager.stop has returned, the loop it cancelled has ended:
\* the periodic task is done and holds or awaits no lock, the alert consumer
\* is in no handler, the broadcast consumer in no send.
C20_LoopsEnded ==
    /\ shutdown_pc = "returned"
          => /\ scan_pc["periodic"] \in {"none", "done"}
             /\ scan_lock # "periodic"
             /\ \A i \in 1..Len(scan_waiters) : scan_waiters[i] # "periodic"
    /\ alert_task = None => dispatch = NoDispatch
    /\ processing_task = None => sweep = NoSweep

\* C20, after the return: no periodic scan runs once shutdown has returned,
\* no handler is called with an alert while the alert pipeline is stopped,
\* and no subscriber is sent a broadcast while the pub-sub is stopped.
C20_NothingAfterStop ==
    /\ shutdown_pc = "returned" => scan_pc'["periodic"] = scan_pc["periodic"]
    /\ alert_task = None => handled' = handled
    /\ processing_task = None
          => \A s \in Subs :
                SelectSeq(rx'[s], IsMessage) = SelectSeq(rx[s], IsMessage)

C21_ProcessedAlertsInHistory ==
    \A h \in Handlers : \A i \in 1..Len(handled[h]) :
       handled[h][i] # dispatch.alert
          => \E j \in 1..Len(GetAlertHistory(alert_history, None, NoDev,
                                              max_history)) :
                GetAlertHistory(alert_history, None, NoDev,
                                max_history)[j].id = handled[h][i]

C23_SendAlertNeverRaises ==
    last_alert_call.op = "send_alert"
       => last_alert_call.outcome \in {"no_queue", "queued"}

\* C24: handler isolation - when a handler raises while handling an alert,
\* the consumer task stays alive, the handler registered after it is
\* called with that same alert, and after the last handler the loop
\* dispatches the next queued alert.
C24_HandlerIsolation ==
    [][(last_alert_call'.op = "handle_alert" /\ ~last_alert_call'.ok) =>
         /\ alert_task' = "running"
         /\ dispatch.pos < Len(alert_handlers) =>
               /\ dispatch' = [alert |-> dispatch.alert,
                               pos |-> dispatch.pos + 1]
               /\ handled'[alert_handlers[dispatch.pos + 1]] =
                     Append(handled[alert_handlers[dispatch.pos + 1]],
                            dispatch.alert)
         /\ (dispatch.pos = Len(alert_handlers) /\ alert_queue # <<>>) =>
               /\ dispatch' = [alert |-> Head(alert_queue), pos |-> 1]
               /\ handled'[alert_handlers[1]] =
                     Append(handled[alert_handlers[1]], Head(alert_queue))
      ]_vars

\* The first of two handlers has just raised on the second alert, which
\* the second handler is now handling after both were given the first.
C24_Witness ==
    /\ last_alert_call = [op |-> "handle_alert", ok |-> FALSE]
    /\ Len(alert_handlers) = 2
    /\ dispatch = [alert |-> 2, pos |-> 2]
    /\ \A h \in Handlers : handled[h] = <<1, 2>>

C26_AffinityGuard ==
    \A k \in 1..Len(calls) :
       /\ calls[k].ran_on # NoLoop => calls[k].ran_on = manager_loop
       /\ calls[k].from = manager_loop => calls[k].pc = "returned"
       /\ calls[k].pc = "returned"
             => calls[k].ran_on = manager_loop /\ calls[k].result = k

\* A call made on another loop than the owning one has returned.
C26_Witness ==
    \E k \in 1..Len(calls) :
       calls[k].from # manager_loop /\ calls[k].pc = "returned"

\* C28: command lifecycle - a status moves only from pending to running
\* and from running to completed or to failed; a status of completed or
\* failed is never overwritten, and the status and the error of such a
\* command stay as they are.
C28_LifecycleMonotone ==
    [][\A c \in 1..Len(cmds) :
         /\ cmds'[c].was \notin {"completed", "failed"}
         /\ cmds[c].status \in {"completed", "failed"}
               => /\ cmds'[c].status = cmds[c].status
                  /\ cmds'[c].error = cmds[c].error
         /\ cmds[c].status = "pending"
               => cmds'[c].status \in {"pending", "running", "failed"}
         /\ cmds[c].status = "running"
               => cmds'[c].status \in {"running", "completed", "failed"}
      ]_vars

\* C29: when the execution of a command fails inside a drain, the command
\* is marked failed with the error recorded, and the drain neither raises
\* nor stops: it is executing the next command of the device, or it has
\* returned with the queue empty and the lock released.
C29_FailureHandledDrainGoesOn ==
    [][\A c \in 1..Len(cmds) :
         (cmds[c].status # "failed" /\ cmds'[c].status = "failed") =>
            /\ cmds'[c].error = "set"
            /\ \A t \in DrainTasks :
                  tasks'[t] # tasks[t] =>
                     \/ tasks'[t].pc = "executing"
                     \/ /\ tasks'[t].exit = "returned"
                        /\ queues'[cmds[c].device] = <<>>
                        /\ locks'[cmds[c].device] = NoTask
      ]_vars

\* C30: get_queue_status(d) reports the number of commands of d that are
\* still pending as queue_size and the command of d that is running, if
\* there is one, as running_command.
C30_StatusIsTrue ==
    \A d \in Devices :
       /\ GetQueueStatus(d).queue_size =
             Cardinality({c \in 1..Len(cmds) :
                            cmds[c].device = d /\ cmds[c].status = "pending"})
       /\ \A c \in 1..Len(cmds) :
             (cmds[c].device = d /\ cmds[c].status = "running")
                => GetQueueStatus(d).running_command = c
       /\ (\A c \in 1..Len(cmds) :
              ~(cmds[c].device = d /\ cmds[c].status = "running"))
                => GetQueueStatus(d).running_command = NoCmd

\* The caller of call k waits for the owning loop to execute it.
Blocked(k) ==
    IF k \in 1..Len(calls) THEN calls[k].pc = "scheduled" ELSE FALSE
OwnerTornDown ==
    IF manager_loop = NoLoop THEN FALSE
    ELSE loop_state[manager_loop] # "running"

\* C27: a call through the guard from another loop, while the owning loop
\* is not running (never run, stopped or closed), does not leave its
\* caller blocked for ever.
C27_TornDownOwnerFailsCall ==
    \A k \in 1..MaxCalls :
       (Blocked(k) /\ OwnerTornDown) ~> ~Blocked(k)

\* A step of clear_queue: it is the only one that takes commands off a
\* queue and leaves every command and every drain task as it was.
ClearStep == cmds' = cmds /\ tasks' = tasks /\ queues' # queues

\* C31: clear_queue(D) leaves the queue of D empty and executes nothing:
\* the queues of the other devices, the commands (a running one included),
\* the locks and the drains stay as they were, and a command is marked
\* running only when a drain takes it from the queue, which a removed
\* command is no longer in.
C31_ClearEmptiesQueue ==
    [][/\ ClearStep =>
            /\ \A d \in Devices :
                  queues'[d] # queues[d] => GetQueueStatus(d)'.queue_size = 0
            /\ Cardinality({d \in Devices : queues'[d] # queues[d]}) = 1
            /\ locks' = locks
       /\ \A c \in 1..Len(cmds) :
             (cmds[c].status = "pending" /\ cmds'[c].status # "pending")
                => InSeq(queues[cmds[c].device], c)
      ]_vars

\* C33: drains of different devices are independent - a drain that starts
\* has to wait only when the lock of its own device is held or waited
\* for; what the drains of other devices do never makes it wait.
C33_DrainWaitsOnlyForOwnLock ==
    [][\A t \in DrainTasks :
         (tasks[t].pc = "idle" /\ tasks'[t].pc = "waitlock") =>
            \/ locks[tasks'[t].device] # NoTask
            \/ \E u \in DrainTasks :
                  tasks[u].pc = "waitlock" /\ tasks[u].device = tasks'[t].device
      ]_vars

\* A drain of device 2 has just marked a command running while the drain
\* of device 1 holds its lock and is executing one.
C33_Witness ==
    \E t, u \in DrainTasks :
       /\ tasks[t].pc = "executing" /\ tasks[t].device = 1 /\ locks[1] = t
       /\ tasks[u].pc = "executing" /\ tasks[u].device = 2 /\ locks[2] = u
       /\ cmds[tasks[t].cmd].status = "running"
       /\ cmds[tasks[u].cmd].status = "running"
       /\ started[Len(started)] = tasks[u].cmd

\* C37: no command is left running once the drain that started it has
\* ended - a running command is the one a drain task is executing under
\* the lock of its device.
C37_NoCommandLeftRunning ==
    \A c \in 1..Len(cmds) :
       cmds[c].status = "running" =>
          \E t \in DrainTasks :
             /\ tasks[t].pc = "executing"
             /\ tasks[t].cmd = c
             /\ locks[cmds[c].device] = t

\* C35: frame of reconciliation - for a device that is known and still
\* listed a successful scan leaves the running flag and the last command
\* status as they were, and the registry keeps its Device: a request that
\* holds that Device still holds the registry's.
C35_ScanKeepsCommandFields ==
    [][(ScanReturned /\ last_scan'.ok)
         => /\ \A d \in DOMAIN devices \cap DOMAIN devices' :
                  /\ devices'[d].running = devices[d].running
                  /\ devices'[d].last_command_status =
                        devices[d].last_command_status
            /\ (held # NoHeld /\ held.device \in DOMAIN devices')
                  => held' = held]_vars

\* A successful scan has just returned with a device that was known
\* before it, running after a start command, and has the listing's status.
C35_Witness ==
    /\ last_scan.task # NoScanner
    /\ last_scan.ok
    /\ \E d \in DOMAIN devices :
          /\ devices[d].running
          /\ devices[d].last_command_status = "simulation_started"
          /\ devices[d].status = "offline"
          /\ devices[d].model = "Pixel"

\* C40: when a start command for a device has succeeded and the device is
\* in the registry, the registry's Device of it is running.
C40_StartedDeviceIsRunning ==
    [][(/\ last_call'.op = "start_simulation"
        /\ last_call'.success
        /\ last_call'.device \in DOMAIN devices')
          => devices'[last_call'.device].running]_vars

\* A call of the executor returns in this step with the given result.
Returns(result) == ex_result # result /\ ex_result' = result

\* C32: outcome side effects - whenever a command succeeds a state-change
\* message is enqueued on the pub-sub, which is running; whenever a command
\* fails terminally an alert is pushed and nothing is broadcast.
C32_OutcomeSideEffects ==
    [][/\ (Returns("true") /\ processing_task = "running")
            => Len(broadcast_queue') = Len(broadcast_queue) + 1
       /\ Returns("false")
            => (Len(ex_alerts') = 1 /\ broadcast_queue' = broadcast_queue)
      ]_vars

\* Subscriber s is handed a broadcast message in this step.
Delivered(s) ==
    /\ Len(rx'[s]) = Len(rx[s]) + 1
    /\ rx'[s][Len(rx'[s])].kind = "message"

\* The consumer goes from the sweep of one message to the next message or
\* to get() in this step, without having been cancelled.
SweepEnds ==
    /\ sweep # NoSweep
    /\ processing_task' = "running"
    /\ sweep' = NoSweep \/ sweep'.msg # sweep.msg

\* C34: point-in-time fan-out - a sweep starts with the channel's set of
\* that moment, keeps it whatever connects and disconnects meanwhile,
\* delivers only to members of it not yet tried, and ends only with the
\* send to the last of them.
C34_PointInTimeFanOut ==
    [][/\ (sweep' # NoSweep /\ (sweep = NoSweep \/ sweep.msg # sweep'.msg))
            => /\ sweep'.connections = active_connections'[sweep'.msg.channel]
               /\ sweep'.attempted = {}
       /\ (sweep # NoSweep /\ sweep' # NoSweep /\ sweep'.msg = sweep.msg)
            => /\ sweep'.connections = sweep.connections
               /\ sweep.attempted \subseteq sweep'.attempted
               /\ sweep'.attempted \subseteq sweep.connections
       /\ \A s \in Subs :
             Delivered(s) => /\ sweep # NoSweep
                             /\ s \in sweep.connections \ sweep.attempted
       /\ SweepEnds => Cardinality(sweep.connections \ sweep.attempted) = 1
      ]_vars

\* A sweep over two subscribers has sent to one and is to send to the
\* other, who has disconnected meanwhile.
C34_Witness ==
    /\ sweep # NoSweep
    /\ sweep.attempted # {}
    /\ \E s \in sweep.connections \ sweep.attempted :
          s \notin active_connections[sweep.msg.channel]

\* C36: single consumer - for any interleaving of start() and stop() calls
\* at most one consumer loop task exists at any time.
C36_SingleConsumer == Cardinality(live_tasks) <= 1

\* Alert a has been handed to every registered handler.
DispatchedToAll(a) ==
    \A i \in 1..Len(alert_handlers) : InSeq(handled[alert_handlers[i]], a)

\* C38: no accepted alert is lost - an alert that send_alert has put on
\* the queue is eventually dispatched to every registered handler, unless
\* the pipeline does not stay running.
C38_NoAcceptedAlertLost ==
    \A a \in 1..MaxAlerts :
        [](alert_count >= a => <>(DispatchedToAll(a) \/ alert_task # "running"))

\* What subscriber s has received so far is not newer than status n of
\* device d: statuses are numbered in the order of the
\* broadcast_device_status calls.
NothingNewerSeen(s, d, n) ==
    \A i \in 1..Len(rx[s]) :
        IF rx[s][i].kind = "snapshot"
        THEN rx[s][i].devices[d] <= n
        ELSE rx[s][i].seq < n

\* C39: a subscriber of the devices channel never sees a device's status
\* go backwards - a status broadcast delivered to it is not older than
\* any status of that device it received before, in a snapshot or in a
\* broadcast.
C39_StatusNeverGoesBack ==
    [][\A s \in Subs :
          (Delivered(s) /\ sweep.msg.type = "device_status")
             => NothingNewerSeen(s, sweep.msg.device, sweep.msg.seq)
      ]_vars

InitOthers ==
    /\ InitQueue /\ InitExec /\ InitBroadcast /\ InitObserved
    /\ InitRegistry /\ InitAlerts /\ InitLoops /\ InitStartStop

Init == InitOthers /\ InitHistory

\* The history list is the input of get_alert_history.
InitHistoryInputs == InitOthers /\ HistoryInputs

SpecQueue == Init /\ [][NextQueue]_vars
SpecQueueDb == Init /\ [][NextQueueDb]_vars
SpecQueueOps == Init /\ [][NextQueueOps]_vars
SpecQueueCancel == Init /\ [][NextQueueCancel]_vars
SpecStartStop == Init /\ [][NextStartStop]_vars
SpecExec == Init /\ [][NextExec]_vars
SpecExecEffects == Init /\ [][NextExecEffects]_vars
SpecBroadcast == Init /\ [][NextBroadcast]_vars
SpecPubSub == Init /\ [][NextPubSub]_vars
SpecRegistry == Init /\ [][NextRegistry]_vars
SpecStartVsScan == Init /\ [][NextStartVsScan]_vars
SpecAlerts == Init /\ [][NextAlerts]_vars
SpecLifecycle == Init /\ [][NextLifecycle]_vars
SpecHistory == InitHistoryInputs /\ [][NextHistory]_vars
SpecLoops == Init /\ [][NextLoops]_vars
\* The event loop resumes a coroutine whose awaited subprocess has exited
\* or whose sleep is over.
SpecExecFair == SpecExec /\ WF_vars(ExecStep /\ UNCHANGED <<qvars, bvars, ovars, rvars, avars, hvars, lvars, cvars>>)
SpecAlertsRestart == Init /\ [][NextAlertsRestart]_vars
\* The event loop resumes the consumer and the caller of stop(); handlers
\* return.
SpecAlertsRestartFair ==
    /\ SpecAlertsRestart
    /\ WF_vars(AlertLoopStep /\ UNCHANGED <<qvars, evars, bvars, ovars, rvars, hvars, lvars, cvars>>)
SpecLoopsFair ==
    /\ SpecLoops
    /\ \A k \in 1..MaxCalls :
          /\ WF_vars(Execute(k) /\ UNCHANGED <<qvars, evars, bvars, ovars, rvars, avars, hvars, cvars>>)
          /\ WF_vars(Resume(k) /\ UNCHANGED <<qvars, evars, bvars, ovars, rvars, avars, hvars, cvars>>)
====
